---------------------------- MODULE Spec2Model ----------------------------
(***************************************************************************)
(* A model of the RAC (Random Access Compression) chunk reader of          *)
(* lib/rac/reader.go.                                                      *)
(*                                                                         *)
(* The container is modelled at the byte level: a file is a sequence of    *)
(* bytes, the node buffer is the 4096-byte array of the source, and the    *)
(* accessors, the checksum and the validation are computed on those bytes  *)
(* as the code computes them.  A public call of the Reader is an action;   *)
(* NextChunk, whose descent loop need not terminate, is split at the top   *)
(* of its loops (pc).                                                      *)
(*                                                                         *)
(* TLC's integers are 32 bits wide, so the 48-bit pointers of the          *)
(* containers used here stay below 2^31 (TLC reports an overflow           *)
(* otherwise), and a CRC-32 is kept as a pair of 16-bit halves.            *)
(***************************************************************************)
EXTENDS Integers, Sequences, FiniteSets, TLC

(***************************************************************************)
(* Bit operations on naturals.                                             *)
(***************************************************************************)
RECURSIVE BitXor(_, _)
BitXor(a, b) ==
    IF a = 0 THEN b
    ELSE IF b = 0 THEN a
    ELSE ((a + b) % 2) + 2 * BitXor(a \div 2, b \div 2)

RECURSIVE BitOr(_, _)
BitOr(a, b) ==
    IF a = 0 THEN b
    ELSE IF b = 0 THEN a
    ELSE (IF (a % 2 = 1) \/ (b % 2 = 1) THEN 1 ELSE 0) + 2 * BitOr(a \div 2, b \div 2)

(***************************************************************************)
(* A call whose result is kept in a local: Once(v, Op) is Op(v) with v     *)
(* evaluated once.  (TLC evaluates an operator's argument at each place    *)
(* the operator's body names it; an element of a set is evaluated once.)   *)
(***************************************************************************)
Once(v, Op(_)) == CHOOSE y \in {Op(x) : x \in {v}} : TRUE

(***************************************************************************)
(* hash/crc32.ChecksumIEEE: the reflected CRC-32 with polynomial           *)
(* 0xEDB88320, initial value and final xor 0xFFFFFFFF.  A 32-bit value is  *)
(* the pair <<high 16 bits, low 16 bits>>.                                 *)
(***************************************************************************)
crcShift(c) ==
    LET hi == c[1] \div 2
        lo == (c[2] \div 2) + (c[1] % 2) * 32768
    IN  IF c[2] % 2 = 1 THEN <<BitXor(hi, 60856), BitXor(lo, 33568)>> ELSE <<hi, lo>>

RECURSIVE crcShiftN(_, _)
crcShiftN(c, k) == IF k = 0 THEN c ELSE crcShiftN(crcShift(c), k - 1)

ieeeTable == [n \in 0..255 |-> crcShiftN(<<0, n>>, 8)]

\* One byte v taken into the running value c.
crcByteOf(c, t) ==
    <<BitXor(t[1], c[1] \div 256), BitXor(t[2], (c[2] \div 256) + (c[1] % 256) * 256)>>

crcByte(c, v) == Once(c, LAMBDA x : crcByteOf(x, ieeeTable[BitXor(x[2] % 256, v)]))

\* The bytes p[lo], ..., p[hi] taken in order into the running value c: the
\* first half of them, then the second half.
RECURSIVE crcUpdate(_, _, _, _)
crcUpdate(c, p, lo, hi) ==
    IF lo > hi THEN c
    ELSE IF lo = hi THEN crcByte(c, p[lo])
    ELSE Once(crcUpdate(c, p, lo, (lo + hi) \div 2),
              LAMBDA m : crcUpdate(m, p, ((lo + hi) \div 2) + 1, hi))

crcFinal(c) == <<65535 - c[1], 65535 - c[2]>>

ChecksumIEEE(p) ==
    Once(p, LAMBDA q : Once(crcUpdate(<<65535, 65535>>, q, 1, Len(q)), crcFinal))

(***************************************************************************)
(* Byte buffers.                                                           *)
(***************************************************************************)
rNodeLen == 4096

\* The node buffer is an array of rNodeLen bytes that starts as zeros.  It is
\* kept as the sequence of its bytes up to the last one ever written: the bytes
\* after them are still zero.
at(b, i) == IF i < Len(b) THEN b[i + 1] ELSE IF i < rNodeLen THEN 0 ELSE b[i + 1]

\* The bytes b[lo], ..., b[hi-1] as a sequence (the Go slice b[lo:hi]).
Slice(b, lo, hi) == [k \in 1..(hi - lo) |-> at(b, lo + k - 1)]

\* copy(b[0:], p): the first Len(p) bytes of b overwritten by p.
Fill(b, p) == IF Len(p) >= Len(b) THEN p ELSE p \o SubSeq(b, Len(p) + 1, Len(b))

magic == (0 :> 114) @@ (1 :> 195) @@ (2 :> 99)

\* u48LE(b[off:]): bytes off+6 and off+7 are read and masked away.
u48LE(b, off) ==
    ((((at(b, off + 5) * 256 + at(b, off + 4)) * 256 + at(b, off + 3)) * 256
        + at(b, off + 2)) * 256 + at(b, off + 1)) * 256 + at(b, off)

bitwiseSubset(outer, inner) == outer = BitOr(outer, inner)

nodeSize(a) == (16 * a) + 16

(***************************************************************************)
(* rNode: the accessors of a node buffer.                                  *)
(***************************************************************************)
arity(b) == at(b, 3)
codec(b) == at(b, (8 * at(b, 3)) + 7)
cPtrMax(b) == u48LE(b, (16 * at(b, 3)) + 8)
dPtrMax(b) == u48LE(b, 8 * at(b, 3))
version(b) == at(b, (16 * at(b, 3)) + 14)

cLen(b, i) == LET base == (8 * at(b, 3)) + 14 IN at(b, (8 * i) + base)

cOff(b, i, cBias) == LET base == (8 * at(b, 3)) + 8 IN cBias + u48LE(b, (8 * i) + base)

\* cOffRange without the end that a CLen gives.
cOffRangeNoCLen(b, i, cBias) ==
    LET m == cBias + cPtrMax(b)
    IN  IF i >= arity(b) THEN <<m, m>>
        ELSE <<cOff(b, i, cBias), m>>

cOffRange(b, i, cBias) ==
    LET m == cBias + cPtrMax(b)
    IN  IF i >= arity(b) THEN <<m, m>>
        ELSE LET o == cOff(b, i, cBias)
                 n == o + (cLen(b, i) * 1024)
             IN  IF cLen(b, i) # 0 /\ m > n THEN <<o, n>> ELSE <<o, m>>

dOff(b, i, dBias) == IF i = 0 THEN dBias ELSE dBias + u48LE(b, 8 * i)

dOffRange(b, i, dBias) == <<dOff(b, i, dBias), dOff(b, i + 1, dBias)>>

dSize(b, i) ==
    LET x == IF i > 0 THEN u48LE(b, 8 * i) ELSE 0
    IN  u48LE(b, (8 * i) + 8) - x

sTag(b, i) == LET base == (8 * at(b, 3)) + 15 IN at(b, (8 * i) + base)

tTag(b, i) == at(b, (8 * i) + 7)

isLeaf(b, i) == at(b, (8 * i) + 7) # 254

\* The index of the panic at the end of findChunkContaining.
NotFound == -1

\* findChunkContaining's loop with "d <= dOff(i+1)" for its test.
RECURSIVE findFromInclusive(_, _, _, _)
findFromInclusive(b, i, d, dBias) ==
    IF i >= arity(b) THEN NotFound
    ELSE IF d <= dOff(b, i + 1, dBias) THEN i
    ELSE findFromInclusive(b, i + 1, d, dBias)

RECURSIVE findFrom(_, _, _, _)
findFrom(b, i, d, dBias) ==
    IF i >= arity(b) THEN NotFound
    ELSE IF d < dOff(b, i + 1, dBias) THEN i
    ELSE findFrom(b, i + 1, d, dBias)

\* findChunkContaining with its loop started at slot 1.
findChunkContainingFromOne(b, d, dBias) == findFrom(b, 1, d, dBias)

findChunkContaining(b, d, dBias) == findFrom(b, 0, d, dBias)

chunk(b, i, cBias, dBias) ==
    [DRange     |-> dOffRange(b, i, dBias),
     CPrimary   |-> cOffRange(b, i, cBias),
     CSecondary |-> cOffRange(b, sTag(b, i), cBias),
     CTertiary  |-> cOffRange(b, tTag(b, i), cBias),
     STag       |-> sTag(b, i),
     TTag       |-> tTag(b, i),
     Codec      |-> codec(b)]

\* The folded checksum of b[6:size] as the bytes stored at b[4] and b[5].
foldedChecksum(p) ==
    Once(ChecksumIEEE(p),
         LAMBDA c : Once(BitXor(c[2], c[1]), LAMBDA f : <<f % 256, f \div 256>>))

\* valid without the comparison of the two arity bytes.
validNoDup(b) ==
    /\ at(b, 0) = magic[0] /\ at(b, 1) = magic[1] /\ at(b, 2) = magic[2] /\ at(b, 3) # 0
    /\ LET a    == at(b, 3)
           size == (16 * a) + 16
           base == (8 * a) + 8
       IN  /\ \A i \in 0..(a - 1) :
                 /\ at(b, (8 * i) + 6) = 0
                 /\ ~ (192 <= at(b, (8 * i) + 7) /\ at(b, (8 * i) + 7) < 254)
           /\ at(b, (8 * a) + 6) = 0
           /\ at(b, (8 * a) + 7) # 0
           /\ \A i \in 2..a : ~ (u48LE(b, 8 * i) < u48LE(b, 8 * (i - 1)))
           /\ \A i \in 0..(a - 1) : ~ (u48LE(b, (8 * i) + base) > u48LE(b, size - 8))
           /\ at(b, (16 * a) + 14) # 0
           /\ \A sum \in {foldedChecksum(Slice(b, 6, size))} :
                  at(b, 4) = sum[1] /\ at(b, 5) = sum[2]

valid(b) ==
    /\ at(b, 0) = magic[0] /\ at(b, 1) = magic[1] /\ at(b, 2) = magic[2] /\ at(b, 3) # 0
    /\ LET a    == at(b, 3)
           size == (16 * a) + 16
           base == (8 * a) + 8
       IN  /\ at(b, 3) = at(b, size - 1)
           /\ \A i \in 0..(a - 1) :
                 /\ at(b, (8 * i) + 6) = 0
                 /\ ~ (192 <= at(b, (8 * i) + 7) /\ at(b, (8 * i) + 7) < 254)
           /\ at(b, (8 * a) + 6) = 0
           /\ at(b, (8 * a) + 7) # 0
           /\ \A i \in 2..a : ~ (u48LE(b, 8 * i) < u48LE(b, 8 * (i - 1)))
           /\ \A i \in 0..(a - 1) : ~ (u48LE(b, (8 * i) + base) > u48LE(b, size - 8))
           /\ at(b, (16 * a) + 14) # 0
           /\ \A sum \in {foldedChecksum(Slice(b, 6, size))} :
                  at(b, 4) = sum[1] /\ at(b, 5) = sum[2]


(***************************************************************************)
(* The byte source.  An io.ReadSeeker holds the file's bytes and a read    *)
(* position; broken says that the device has failed, after which every     *)
(* Seek fails.  calls counts the readAt calls of the current public call   *)
(* (it stops counting at MaxReads).                                        *)
(***************************************************************************)
MaxReads == 6

Nil == "nil"
EOF == "EOF"
ErrUnexpectedEOF == "unexpected EOF"
ErrIO == "io: device error"
errInvalidIndexNode == "rac: invalid index node"
ErrReadSeeker == "rac: invalid ReadSeeker"
ErrCompressedSize == "rac: invalid CompressedSize"
ErrVersion == "rac: unsupported RAC file version"
ErrMagic == "rac: invalid input: missing magic bytes at the start of file"
ErrMissingRoot == "rac: invalid input: missing index root node"
ErrArity == "rac: internal error: inconsistent arity"
ErrNegative == "rac: seek: negative position"

ReadSeekerOf(data) ==
    [isNil |-> FALSE, data |-> data, pos |-> 0, broken |-> FALSE, calls |-> 0,
     isReaderAt |-> FALSE, seekCalled |-> FALSE, readAtCalled |-> FALSE]

\* A byte source that is an io.ReaderAt as well.
ReaderAtOf(data) == [ReadSeekerOf(data) EXCEPT !.isReaderAt = TRUE]

NilReadSeeker ==
    [isNil |-> TRUE, data |-> <<>>, pos |-> 0, broken |-> FALSE, calls |-> 0,
     isReaderAt |-> FALSE, seekCalled |-> FALSE, readAtCalled |-> FALSE]

(***************************************************************************)
(* The Reader.  r is the record of its fields; an internal method returns  *)
(* the Reader after the call together with the error it returns.  A method *)
(* is written as a chain of operators, one for each stretch of its body    *)
(* between two calls, each taking what the call before it returned.        *)
(***************************************************************************)
NewReader(rs, size) ==
    [ReadSeeker                |-> rs,
     CompressedSize            |-> size,
     initialized               |-> FALSE,
     rootNodeArity             |-> 0,
     needToResolveSeekPosition |-> FALSE,
     err                       |-> Nil,
     decompressedSize          |-> 0,
     rootNodeCOffset           |-> 0,
     seekPosition              |-> 0,
     nextChunk                 |-> 0,
     currNodeCBias             |-> 0,
     currNodeDBias             |-> 0,
     currNode                  |-> <<>>]

Ret(r, e) == [r |-> r, err |-> e]

\* r.err = e; return r.err
Latch(r, e) == Ret([r EXCEPT !.err = e], e)

\* if err != nil { r.err = err; return r.err }
LatchIfErr(x) == IF x.err # Nil THEN Latch(x.r, x.err) ELSE x

\* The number of the n bytes at offset that the source holds.
Avail(rs, n, offset) ==
    IF offset >= Len(rs.data) THEN 0
    ELSE IF offset + n > Len(rs.data) THEN Len(rs.data) - offset
    ELSE n

\* a.ReadAt(p, offset) of readAt: the position of the source is left alone,
\* and io.EOF with all n bytes read is no error.
readAtPositional(r, n, offset) ==
    IF r.ReadSeeker.broken \/ offset < 0
    THEN Ret([r EXCEPT !.ReadSeeker.calls = IF @ < MaxReads THEN @ + 1 ELSE @,
                       !.ReadSeeker.readAtCalled = TRUE], ErrIO)
    ELSE Ret([r EXCEPT !.ReadSeeker.calls = IF @ < MaxReads THEN @ + 1 ELSE @,
                       !.ReadSeeker.readAtCalled = TRUE,
                       !.currNode = Fill(@, SubSeq(r.ReadSeeker.data, offset + 1,
                                          offset + Avail(r.ReadSeeker, n, offset)))],
             IF Avail(r.ReadSeeker, n, offset) = n THEN Nil ELSE EOF)

\* readAt(r.ReadSeeker, r.currNode[:n], offset): the ReadAt branch is guarded
\* by "ok && false"; after it Seek, then io.ReadFull into the head of the node
\* buffer.
readAt(r, n, offset) ==
    IF r.ReadSeeker.isReaderAt /\ FALSE
    THEN readAtPositional(r, n, offset)
    ELSE IF r.ReadSeeker.broken \/ offset < 0
    THEN Ret([r EXCEPT !.ReadSeeker.calls = IF @ < MaxReads THEN @ + 1 ELSE @,
                       !.ReadSeeker.seekCalled = TRUE], ErrIO)
    ELSE Ret([r EXCEPT !.ReadSeeker.calls = IF @ < MaxReads THEN @ + 1 ELSE @,
                       !.ReadSeeker.seekCalled = TRUE,
                       !.ReadSeeker.pos = offset + Avail(r.ReadSeeker, n, offset),
                       !.currNode = Fill(@, SubSeq(r.ReadSeeker.data, offset + 1,
                                          offset + Avail(r.ReadSeeker, n, offset)))],
             IF Avail(r.ReadSeeker, n, offset) = n THEN Nil
             ELSE IF Avail(r.ReadSeeker, n, offset) = 0 THEN EOF
             ELSE ErrUnexpectedEOF)

\* checkParameters with "CompressedSize < 31" for its test.
checkParametersLoose(r) ==
    IF r.ReadSeeker.isNil THEN Latch(r, ErrReadSeeker)
    ELSE IF r.CompressedSize < 31 THEN Latch(r, ErrCompressedSize)
    ELSE Ret(r, Nil)

checkParameters(r) ==
    IF r.ReadSeeker.isNil THEN Latch(r, ErrReadSeeker)
    ELSE IF r.CompressedSize < 32 THEN Latch(r, ErrCompressedSize)
    ELSE Ret(r, Nil)

load(r, cOffset, a) ==
    IF a = 0 THEN Latch(r, ErrArity)
    ELSE Once(readAt(r, nodeSize(a), cOffset), LatchIfErr)

Found(r, found, e) == [r |-> r, found |-> found, err |-> e]

\* tryRootNodeLoaded without "r.needToResolveSeekPosition = true".
tryRootNodeLoadedNoResolve(ld, a, cOffset) ==
    IF ld.err # Nil THEN Found(ld.r, FALSE, ld.err)
    ELSE IF ~ valid(ld.r.currNode) THEN Found(ld.r, FALSE, Nil)
    ELSE IF cPtrMax(ld.r.currNode) # ld.r.CompressedSize THEN Found(ld.r, FALSE, Nil)
    ELSE Found([ld.r EXCEPT !.rootNodeCOffset = cOffset,
                            !.rootNodeArity = a,
                            !.decompressedSize = dPtrMax(ld.r.currNode)],
               TRUE, Nil)

\* tryRootNode after its call of load.
tryRootNodeLoaded(ld, a, cOffset) ==
    IF ld.err # Nil THEN Found(ld.r, FALSE, ld.err)
    ELSE IF ~ valid(ld.r.currNode) THEN Found(ld.r, FALSE, Nil)
    ELSE IF cPtrMax(ld.r.currNode) # ld.r.CompressedSize THEN Found(ld.r, FALSE, Nil)
    ELSE Found([ld.r EXCEPT !.needToResolveSeekPosition = TRUE,
                            !.rootNodeCOffset = cOffset,
                            !.rootNodeArity = a,
                            !.decompressedSize = dPtrMax(ld.r.currNode)],
               TRUE, Nil)

tryRootNode(r, a, fromEnd) ==
    IF a = 0 THEN Found(r, FALSE, Nil)
    ELSE IF r.CompressedSize < nodeSize(a) THEN Found(r, FALSE, Nil)
    ELSE Once(load(r, IF fromEnd THEN r.CompressedSize - nodeSize(a) ELSE 0, a),
              LAMBDA ld : tryRootNodeLoaded(
                  ld, a, IF fromEnd THEN r.CompressedSize - nodeSize(a) ELSE 0))

\* findRootNode after the tail's candidate was tried: the error of the last
\* line is returned and not stored in r.err.
findRootNodeTailTried(t) ==
    IF t.err # Nil THEN Ret(t.r, t.err)
    ELSE IF t.found THEN Ret(t.r, Nil)
    ELSE Ret(t.r, ErrMissingRoot)

\* findRootNode after its read of the file's last byte.
findRootNodeTail(rd) ==
    IF rd.err # Nil THEN Latch(rd.r, rd.err)
    ELSE Once(tryRootNode(rd.r, at(rd.r.currNode, 0), TRUE), findRootNodeTailTried)

\* findRootNodeHeadTried that goes on to the tail after a root found at the
\* head.
findRootNodeHeadTriedTailToo(t) ==
    IF t.err # Nil THEN Ret(t.r, t.err)
    ELSE Once(readAt(t.r, 1, t.r.CompressedSize - 1), findRootNodeTail)

\* findRootNode after the head's candidate was tried.
findRootNodeHeadTried(t) ==
    IF t.err # Nil THEN Ret(t.r, t.err)
    ELSE IF t.found THEN Ret(t.r, Nil)
    ELSE Once(readAt(t.r, 1, t.r.CompressedSize - 1), findRootNodeTail)

\* findRootNode after its read of the file's first 4 bytes.
findRootNodeHead(rd) ==
    IF rd.err # Nil THEN Latch(rd.r, rd.err)
    ELSE IF (at(rd.r.currNode, 0) # magic[0]) \/ (at(rd.r.currNode, 1) # magic[1])
                \/ (at(rd.r.currNode, 2) # magic[2])
    THEN Latch(rd.r, ErrMagic)
    ELSE Once(tryRootNode(rd.r, at(rd.r.currNode, 3), FALSE), findRootNodeHeadTried)

findRootNode(r) == Once(readAt(r, 4, 0), findRootNodeHead)

\* initializeRooted with the version error returned and not stored in r.err.
initializeRootedUnlatched(fr) ==
    IF fr.err # Nil THEN fr
    ELSE IF version(fr.r.currNode) # 1 THEN Ret(fr.r, ErrVersion)
    ELSE Ret(fr.r, Nil)

\* initialize after its call of findRootNode.
initializeRooted(fr) ==
    IF fr.err # Nil THEN fr
    ELSE IF version(fr.r.currNode) # 1 THEN Latch(fr.r, ErrVersion)
    ELSE Ret(fr.r, Nil)

\* initialize after its call of checkParameters.
initializeChecked(cp) ==
    IF cp.err # Nil THEN cp ELSE Once(findRootNode(cp.r), initializeRooted)

\* initialize without the early return of an initialized Reader.
initializeAgain(r) ==
    IF r.err # Nil THEN Ret(r, r.err)
    ELSE Once(checkParameters([r EXCEPT !.initialized = TRUE]), initializeChecked)

initialize(r) ==
    IF r.err # Nil THEN Ret(r, r.err)
    ELSE IF r.initialized THEN Ret(r, Nil)
    ELSE Once(checkParameters([r EXCEPT !.initialized = TRUE]), initializeChecked)

\* loadAndValidateLoaded with "childDSize < dPtrMax" for the check of the
\* child's DOffMax: a child smaller than its slot passes.
loadAndValidateLoadedDSizeFits(ld, parentCodec, parentVersion, parentCOffMax, childCBias, childDSize) ==
    IF ld.err # Nil THEN ld
    ELSE IF ~ valid(ld.r.currNode) THEN Latch(ld.r, errInvalidIndexNode)
    ELSE IF \/ ~ bitwiseSubset(parentCodec, codec(ld.r.currNode))
            \/ parentVersion < version(ld.r.currNode)
            \/ parentCOffMax < (childCBias + cPtrMax(ld.r.currNode))
            \/ childDSize < dPtrMax(ld.r.currNode)
    THEN Latch(ld.r, errInvalidIndexNode)
    ELSE Ret(ld.r, Nil)

\* loadAndValidateLoaded without the check of the child's codec.
loadAndValidateLoadedNoCodec(ld, parentCodec, parentVersion, parentCOffMax, childCBias, childDSize) ==
    IF ld.err # Nil THEN ld
    ELSE IF ~ valid(ld.r.currNode) THEN Latch(ld.r, errInvalidIndexNode)
    ELSE IF \/ parentVersion < version(ld.r.currNode)
            \/ parentCOffMax < (childCBias + cPtrMax(ld.r.currNode))
            \/ childDSize # dPtrMax(ld.r.currNode)
    THEN Latch(ld.r, errInvalidIndexNode)
    ELSE Ret(ld.r, Nil)

\* loadAndValidateLoaded without the check of the child's DOffMax.
loadAndValidateLoadedNoDSize(ld, parentCodec, parentVersion, parentCOffMax, childCBias, childDSize) ==
    IF ld.err # Nil THEN ld
    ELSE IF ~ valid(ld.r.currNode) THEN Latch(ld.r, errInvalidIndexNode)
    ELSE IF \/ ~ bitwiseSubset(parentCodec, codec(ld.r.currNode))
            \/ parentVersion < version(ld.r.currNode)
            \/ parentCOffMax < (childCBias + cPtrMax(ld.r.currNode))
    THEN Latch(ld.r, errInvalidIndexNode)
    ELSE Ret(ld.r, Nil)

\* loadAndValidate after its call of load: the node's own validity, then the
\* parent and child codec, version, COffMax and DOffMax.
loadAndValidateLoaded(ld, parentCodec, parentVersion, parentCOffMax, childCBias, childDSize) ==
    IF ld.err # Nil THEN ld
    ELSE IF ~ valid(ld.r.currNode) THEN Latch(ld.r, errInvalidIndexNode)
    ELSE IF \/ ~ bitwiseSubset(parentCodec, codec(ld.r.currNode))
            \/ parentVersion < version(ld.r.currNode)
            \/ parentCOffMax < (childCBias + cPtrMax(ld.r.currNode))
            \/ childDSize # dPtrMax(ld.r.currNode)
    THEN Latch(ld.r, errInvalidIndexNode)
    ELSE Ret(ld.r, Nil)

\* loadAndValidate after its read of the child's first 4 bytes.
loadAndValidateHead(rd, cOffset, parentCodec, parentVersion, parentCOffMax, childCBias, childDSize) ==
    IF rd.err # Nil THEN Latch(rd.r, rd.err)
    ELSE IF at(rd.r.currNode, 3) = 0 THEN Latch(rd.r, errInvalidIndexNode)
    ELSE IF \/ rd.r.CompressedSize < nodeSize(at(rd.r.currNode, 3))
            \/ (rd.r.CompressedSize - nodeSize(at(rd.r.currNode, 3))) < cOffset
    THEN Latch(rd.r, errInvalidIndexNode)
    ELSE Once(load(rd.r, cOffset, at(rd.r.currNode, 3)),
              LAMBDA ld : loadAndValidateLoaded(ld, parentCodec, parentVersion,
                                                parentCOffMax, childCBias, childDSize))

loadAndValidate(r, cOffset, parentCodec, parentVersion, parentCOffMax, childCBias, childDSize) ==
    IF (cOffset < 0) \/ ((r.CompressedSize - 4) < cOffset)
    THEN Latch(r, errInvalidIndexNode)
    ELSE Once(readAt(r, 4, cOffset),
              LAMBDA rd : loadAndValidateHead(rd, cOffset, parentCodec, parentVersion,
                                              parentCOffMax, childCBias, childDSize))

(***************************************************************************)
(* Containers.  A node is laid out from its entries as the accessors read  *)
(* it back: for slot i the DPtr at 8i (slot 0's is implicit), a reserved   *)
(* byte at 8i+6, the TTag at 8i+7, then the CPtr table with CLen and STag, *)
(* then CPtrMax, the version and the arity again.                          *)
(***************************************************************************)
le48(v) ==
    <<v % 256, (v \div 256) % 256, (v \div 65536) % 256, (v \div 16777216) % 256, 0, 0>>

Entry(t, d, c, l, s) == [tTag |-> t, dPtr |-> d, cPtr |-> c, cLen |-> l, sTag |-> s]

Leaf   == 255
Branch == 254
NoTag  == 255

RECURSIVE dTable(_, _)
dTable(es, i) ==
    IF i > Len(es) THEN <<>>
    ELSE le48(es[i].dPtr) \o <<0, es[i].tTag>> \o dTable(es, i + 1)

RECURSIVE cTable(_, _)
cTable(es, i) ==
    IF i > Len(es) THEN <<>>
    ELSE le48(es[i].cPtr) \o <<es[i].cLen, es[i].sTag>> \o cTable(es, i + 1)

\* The bytes [6, 16A+16) of a node.
nodeBody(es, dMax, cMax, cdc, ver) ==
    <<0, es[1].tTag>> \o dTable(es, 2) \o le48(dMax) \o <<0, cdc>>
        \o cTable(es, 1) \o le48(cMax) \o <<ver, Len(es)>>

Node(es, dMax, cMax, cdc, ver) ==
    Once(nodeBody(es, dMax, cMax, cdc, ver),
         LAMBDA body : <<magic[0], magic[1], magic[2], Len(es)>>
                           \o foldedChecksum(body) \o body)

Zeros(n) == [k \in 1..n |-> 0]

\* The file with the byte at offset off replaced by v.
Poke(file, off, v) == [file EXCEPT ![off + 1] = v]

\* A root at the head: leaves [0,2), [2,2) (empty) and [2,5); 16 bytes of
\* chunk data follow the node.
FlatRoot(cMax) ==
    Node(<<Entry(Leaf, 0, 64, 0, NoTag), Entry(Leaf, 2, 70, 0, NoTag),
           Entry(Leaf, 2, 70, 0, NoTag)>>, 5, cMax, 1, 1)

FlatFile == FlatRoot(80) \o Zeros(16)

\* A root at the tail over two child nodes.  The file starts with the magic
\* and the arity byte 1, but its first 32 bytes are no valid node.  The second
\* child has the CBias 4 that the root's slot 2 holds.
TreeHead == <<magic[0], magic[1], magic[2], 1>> \o Zeros(28)

TreeChildA ==
    Node(<<Entry(Leaf, 0, 4, 0, NoTag), Entry(Leaf, 2, 10, 0, NoTag)>>, 3, 16, 1, 1)

TreeChildB(dMax) ==
    Node(<<Entry(Leaf, 0, 16, 0, NoTag), Entry(Leaf, 0, 16, 0, NoTag)>>, dMax, 24, 1, 1)

TreeRoot ==
    Node(<<Entry(Branch, 0, 32, 0, NoTag), Entry(Branch, 3, 80, 0, 2),
           Entry(Leaf, 5, 4, 0, NoTag)>>, 5, 192, 1, 1)

TreeFile == TreeHead \o TreeChildA \o TreeChildB(2) \o TreeRoot

\* The same tree with a second child whose DPtrMax (1) is not the size (2)
\* that the root declares for it.
BadChildFile == TreeHead \o TreeChildA \o TreeChildB(1) \o TreeRoot

\* A head root that mixes leaves with a branch: leaf [0,2), branch [2,5) to
\* the node at 64, leaf [5,6).
MixedRoot ==
    Node(<<Entry(Leaf, 0, 112, 0, NoTag), Entry(Branch, 2, 64, 0, NoTag),
           Entry(Leaf, 5, 120, 0, NoTag)>>, 6, 128, 1, 1)

MixedChild ==
    Node(<<Entry(Leaf, 0, 112, 0, NoTag), Entry(Leaf, 1, 116, 0, NoTag)>>, 3, 128, 1, 1)

MixedFile == MixedRoot \o MixedChild \o Zeros(16)

\* Two nodes whose only slots are branches to each other.
CycleFile ==
    Node(<<Entry(Branch, 0, 32, 0, NoTag)>>, 4, 64, 1, 1)
        \o Node(<<Entry(Branch, 0, 0, 0, NoTag)>>, 4, 64, 1, 1)

\* FlatFile with a checksum byte inverted: no valid root at either end.
NoRootFile == Poke(FlatFile, 4, 255 - FlatFile[5])

\* A valid head node whose CPtrMax (112) is not the file's size (96).
LongCPtrFile == FlatRoot(112) \o Zeros(32)

\* A valid tail root in a file that does not start with the magic.
NoMagicFile == Poke(TreeFile, 0, 0)

\* The tree with other codecs: the root has the codec bits 1 and 2, the first
\* child the bit 1 only, the second child the bits 1 and 4.
CodecChildB ==
    Node(<<Entry(Leaf, 0, 16, 0, NoTag), Entry(Leaf, 0, 16, 0, NoTag)>>, 2, 24, 5, 1)

CodecRoot ==
    Node(<<Entry(Branch, 0, 32, 0, NoTag), Entry(Branch, 3, 80, 0, 2),
           Entry(Leaf, 5, 4, 0, NoTag)>>, 5, 192, 3, 1)

CodecFile == TreeHead \o TreeChildA \o CodecChildB \o CodecRoot

\* A container whose root, at the head, is valid but for its version byte 2.
Version2File == Node(<<Entry(Leaf, 0, 32, 0, NoTag)>>, 3, 48, 1, 2) \o Zeros(16)

\* A container with an acceptable root at either end: the one at the head
\* over [0,3), the one at the tail over [0,4).
BothRootsFile ==
    Node(<<Entry(Leaf, 0, 32, 0, NoTag)>>, 3, 64, 1, 1)
        \o Node(<<Entry(Leaf, 0, 0, 0, NoTag)>>, 4, 64, 1, 1)

\* A root at the head over a child at 32 over a grandchild at 64.  The child
\* declares the CPtrMax 80; the grandchild's 32 bytes end at 96, the end of
\* the file, and its own CPtrMax is 80.
CeilingFile ==
    Node(<<Entry(Branch, 0, 32, 0, NoTag)>>, 2, 96, 1, 1)
        \o Node(<<Entry(Branch, 0, 64, 0, NoTag)>>, 2, 80, 1, 1)
        \o Node(<<Entry(Leaf, 0, 72, 0, NoTag)>>, 2, 80, 1, 1)

Config(data) == [ReadSeeker |-> ReadSeekerOf(data), CompressedSize |-> Len(data)]

Containers ==
    {FlatFile, TreeFile, BadChildFile, MixedFile, CycleFile, NoRootFile,
     LongCPtrFile, NoMagicFile, Version2File, CodecFile, BothRootsFile,
     CeilingFile}

\* The containers all of whose nodes pass valid and the parent/child checks.
ValidContainers == {FlatFile, TreeFile, MixedFile, BothRootsFile, CeilingFile}

Configs ==
    {Config(data) : data \in Containers}
        \cup {[ReadSeeker |-> NilReadSeeker, CompressedSize |-> Len(FlatFile)],
              [ReadSeeker |-> ReadSeekerOf(FlatFile), CompressedSize |-> 31],
              [ReadSeeker |-> ReaderAtOf(FlatFile), CompressedSize |-> Len(FlatFile)]}

(***************************************************************************)
(* The state.                                                              *)
(*   r            the Reader (its byte source included)                    *)
(*   pc           "idle" between public calls; inside NextChunk "loop" at  *)
(*                the top of its for loop and "resolve" at the top of the  *)
(*                loop of resolveSeekPosition; "panic" after the panic of  *)
(*                findChunkContaining                                      *)
(*   cBias, dBias the locals of resolveSeekPosition                        *)
(*   ret          what the last public call returned                       *)
(*   firstErr     the first error, other than io.EOF from NextChunk, that  *)
(*                a public call returned                                   *)
(*   lastSeek     the last SeekToChunkContaining call: whether it          *)
(*                succeeded, its argument, and whether NextChunk has not   *)
(*                returned since (fresh)                                   *)
(*   hist         the chunks returned since the last successful seek       *)
(*   seq0         the chunks of the first run from a seek to 0 up to       *)
(*                io.EOF, once there was one                               *)
(*   eofSeen      whether a NextChunk call has returned io.EOF             *)
(*                                                                         *)
(* The token package, which the Reader does not use:                       *)
(*   builtInsByName  the map from the names of the built-in IDs to IDs     *)
(*   initPos         the index that the loop of the package's init is at   *)
(***************************************************************************)
VARIABLES r, pc, cBias, dBias, ret, firstErr, lastSeek, hist, seq0, eofSeen,
          builtInsByName, initPos

vars == <<r, pc, cBias, dBias, ret, firstErr, lastSeek, hist, seq0, eofSeen,
          builtInsByName, initPos>>

tokenVars == <<builtInsByName, initPos>>

\* var builtInsByName = map[string]ID{}
InitToken ==
    /\ builtInsByName = [n \in {} |-> 0]
    /\ initPos = 0

MaxSeek == 7

SeekArgs == (0 - 1)..MaxSeek

\* Chunk{}
NoChunk ==
    [DRange |-> <<0, 0>>, CPrimary |-> <<0, 0>>, CSecondary |-> <<0, 0>>,
     CTertiary |-> <<0, 0>>, STag |-> 0, TTag |-> 0, Codec |-> 0]

Empty(rng) == rng[1] = rng[2]

\* What a stretch of NextChunk leaves: the Reader, where the call stands, the
\* locals, and what it returns if it returns ("none" while it runs on).
Out(kind, e, c) == [kind |-> kind, err |-> e, chunk |-> c]
Running == Out("none", Nil, NoChunk)
At(rr, p, cB, dB, out) == [r |-> rr, pc |-> p, cBias |-> cB, dBias |-> dB, out |-> out]

\* NextChunk's inner loop over the slots of currNode; emitChunk is its body
\* for the chunk c of slot nextChunk.
RECURSIVE emitChunks(_)
\* emitChunk with seekPosition left at the chunk's low end.
emitChunkStale(rr, c) ==
    IF ~ Empty(c.DRange)
    THEN At([rr EXCEPT !.nextChunk = @ + 1, !.seekPosition = c.DRange[1]],
            "idle", 0, 0, Out("chunk", Nil, c))
    ELSE Once([rr EXCEPT !.nextChunk = @ + 1, !.seekPosition = c.DRange[1]], emitChunks)

\* emitChunk with seekPosition set to the chunk's high end and nextChunk left
\* as it is.
emitChunkNoAdvance(rr, c) ==
    IF ~ Empty(c.DRange)
    THEN At([rr EXCEPT !.seekPosition = c.DRange[2]],
            "idle", 0, 0, Out("chunk", Nil, c))
    ELSE Once([rr EXCEPT !.nextChunk = @ + 1, !.seekPosition = c.DRange[2]], emitChunks)

\* emitChunk without the test for an empty DRange.
emitChunkAll(rr, c) ==
    At([rr EXCEPT !.nextChunk = @ + 1, !.seekPosition = c.DRange[2]],
       "idle", 0, 0, Out("chunk", Nil, c))

emitChunk(rr, c) ==
    IF ~ Empty(c.DRange)
    THEN At([rr EXCEPT !.nextChunk = @ + 1, !.seekPosition = c.DRange[2]],
            "idle", 0, 0, Out("chunk", Nil, c))
    ELSE Once([rr EXCEPT !.nextChunk = @ + 1, !.seekPosition = c.DRange[2]], emitChunks)

emitChunks(rr) ==
    IF rr.nextChunk < arity(rr.currNode)
    THEN Once(chunk(rr.currNode, rr.nextChunk, rr.currNodeCBias, rr.currNodeDBias),
              LAMBDA c : emitChunk(rr, c))
    ELSE At([rr EXCEPT !.needToResolveSeekPosition = TRUE], "loop", 0, 0, Running)

\* resolveSeekPosition after its load of the root node.
resolveLoaded(ld) ==
    IF ld.err # Nil THEN At(ld.r, "idle", 0, 0, Out("err", ld.err, NoChunk))
    ELSE At(ld.r, "resolve", 0, 0, Running)

\* loopTop with "seekPosition > decompressedSize" for the test of io.EOF.
loopTopStrict(rr) ==
    IF rr.needToResolveSeekPosition
    THEN IF rr.seekPosition > rr.decompressedSize
         THEN At(rr, "idle", 0, 0, Out("eof", EOF, NoChunk))
         ELSE Once(load([rr EXCEPT !.needToResolveSeekPosition = FALSE],
                        rr.rootNodeCOffset, rr.rootNodeArity), resolveLoaded)
    ELSE emitChunks(rr)

\* loopTop with io.EOF stored in r.err.
loopTopLatchEOF(rr) ==
    IF rr.needToResolveSeekPosition
    THEN IF rr.seekPosition >= rr.decompressedSize
         THEN At([rr EXCEPT !.err = EOF], "idle", 0, 0, Out("eof", EOF, NoChunk))
         ELSE Once(load([rr EXCEPT !.needToResolveSeekPosition = FALSE],
                        rr.rootNodeCOffset, rr.rootNodeArity), resolveLoaded)
    ELSE emitChunks(rr)

\* One pass of NextChunk's outer loop, up to the loop of resolveSeekPosition.
loopTop(rr) ==
    IF rr.needToResolveSeekPosition
    THEN IF rr.seekPosition >= rr.decompressedSize
         THEN At(rr, "idle", 0, 0, Out("eof", EOF, NoChunk))
         ELSE Once(load([rr EXCEPT !.needToResolveSeekPosition = FALSE],
                        rr.rootNodeCOffset, rr.rootNodeArity), resolveLoaded)
    ELSE emitChunks(rr)

\* The loop of resolveSeekPosition after loadAndValidate.
resolveChild(lv, childCBias, childDBias) ==
    IF lv.err # Nil THEN At(lv.r, "idle", 0, 0, Out("err", lv.err, NoChunk))
    ELSE At(lv.r, "resolve", childCBias, childDBias, Running)

childCBiasOf(b, i, cB) ==
    IF sTag(b, i) < arity(b) THEN cOff(b, sTag(b, i), cB) ELSE cB

\* One pass of the loop of resolveSeekPosition, for the slot i that
\* findChunkContaining returned; on a leaf it returns to NextChunk, which goes
\* on to its inner loop.
resolveSlot(rr, cB, dB, i) ==
    IF i = NotFound THEN At(rr, "panic", cB, dB, Running)
    ELSE IF isLeaf(rr.currNode, i)
    THEN emitChunks([rr EXCEPT !.nextChunk = i, !.currNodeCBias = cB,
                               !.currNodeDBias = dB])
    ELSE Once(loadAndValidate(rr, cOff(rr.currNode, i, cB), codec(rr.currNode),
                              version(rr.currNode), cB + cPtrMax(rr.currNode),
                              childCBiasOf(rr.currNode, i, cB), dSize(rr.currNode, i)),
              LAMBDA lv : resolveChild(lv, childCBiasOf(rr.currNode, i, cB),
                                       dOff(rr.currNode, i, dB)))

resolveStep(rr, cB, dB) ==
    Once(findChunkContaining(rr.currNode, rr.seekPosition, dB),
         LAMBDA i : resolveSlot(rr, cB, dB, i))

(***************************************************************************)
(* The record of a public call's return.                                   *)
(***************************************************************************)
NoRet ==
    [op |-> "none", arg |-> 0, kind |-> "ok", err |-> Nil, chunk |-> NoChunk,
     size |-> 0, first |-> FALSE, reads |-> 0]

Returns(op, arg, out, size, rr) ==
    /\ ret' = [op |-> op, arg |-> arg, kind |-> out.kind, err |-> out.err,
               chunk |-> out.chunk, size |-> size,
               first |-> (op = "NextChunk" /\ lastSeek.ok /\ lastSeek.fresh),
               reads |-> rr.ReadSeeker.calls]
    /\ firstErr' = IF firstErr = Nil /\ out.kind = "err" THEN out.err ELSE firstErr
    /\ lastSeek' = IF op = "SeekToChunkContaining"
                   THEN [ok |-> out.kind = "ok", d |-> arg, fresh |-> out.kind = "ok"]
                   ELSE IF op = "NextChunk" THEN [lastSeek EXCEPT !.fresh = FALSE]
                   ELSE lastSeek
    /\ hist' = IF op = "SeekToChunkContaining" THEN <<>>
               ELSE IF out.kind = "chunk" THEN Append(hist, out.chunk)
               ELSE hist
    /\ seq0' = IF /\ ~ seq0.set /\ op = "NextChunk" /\ out.kind = "eof"
                  /\ lastSeek.ok /\ lastSeek.d = 0
               THEN [set |-> TRUE, chunks |-> hist]
               ELSE seq0
    /\ eofSeen' = (eofSeen \/ (op = "NextChunk" /\ out.kind = "eof"))
    /\ UNCHANGED tokenVars

\* The state after a stretch of NextChunk.
Continue(s) ==
    /\ r' = s.r
    /\ pc' = s.pc
    /\ cBias' = s.cBias
    /\ dBias' = s.dBias
    /\ IF s.out.kind = "none"
       THEN UNCHANGED <<ret, firstErr, lastSeek, hist, seq0, eofSeen, tokenVars>>
       ELSE Returns("NextChunk", 0, s.out, 0, s.r)

\* A public call starts: the count of its reads starts at 0.
Begin(rr) == [rr EXCEPT !.ReadSeeker.calls = 0]

(***************************************************************************)
(* The actions: the public methods, the rest of a NextChunk call, and the  *)
(* device failing.                                                         *)
(***************************************************************************)
Init ==
    /\ r \in {NewReader(c.ReadSeeker, c.CompressedSize) : c \in Configs}
    /\ pc = "idle"
    /\ cBias = 0
    /\ dBias = 0
    /\ ret = NoRet
    /\ firstErr = Nil
    /\ lastSeek = [ok |-> FALSE, d |-> 0, fresh |-> FALSE]
    /\ hist = <<>>
    /\ seq0 = [set |-> FALSE, chunks |-> <<>>]
    /\ eofSeen = FALSE
    /\ InitToken

DecompressedSize ==
    /\ pc = "idle"
    /\ \E i \in {initialize(Begin(r))} :
           /\ r' = i.r
           /\ IF i.err # Nil
              THEN Returns("DecompressedSize", 0, Out("err", i.err, NoChunk), 0, i.r)
              ELSE Returns("DecompressedSize", 0, Out("ok", Nil, NoChunk),
                           i.r.decompressedSize, i.r)
    /\ UNCHANGED <<pc, cBias, dBias>>

\* SeekToChunkContaining with the error of a negative position returned and
\* not stored in r.err.
SeekToChunkContainingUnlatched(dSpaceOffset) ==
    /\ pc = "idle"
    /\ \E i \in {initialize(Begin(r))} :
           IF i.err # Nil
           THEN /\ r' = i.r
                /\ Returns("SeekToChunkContaining", dSpaceOffset,
                           Out("err", i.err, NoChunk), 0, i.r)
           ELSE IF dSpaceOffset < 0
           THEN /\ r' = i.r
                /\ Returns("SeekToChunkContaining", dSpaceOffset,
                           Out("err", ErrNegative, NoChunk), 0, i.r)
           ELSE /\ r' = [i.r EXCEPT !.needToResolveSeekPosition = TRUE,
                                    !.seekPosition = dSpaceOffset]
                /\ Returns("SeekToChunkContaining", dSpaceOffset,
                           Out("ok", Nil, NoChunk), 0, i.r)
    /\ UNCHANGED <<pc, cBias, dBias>>

SeekToChunkContaining(dSpaceOffset) ==
    /\ pc = "idle"
    /\ \E i \in {initialize(Begin(r))} :
           IF i.err # Nil
           THEN /\ r' = i.r
                /\ Returns("SeekToChunkContaining", dSpaceOffset,
                           Out("err", i.err, NoChunk), 0, i.r)
           ELSE IF dSpaceOffset < 0
           THEN /\ r' = [i.r EXCEPT !.err = ErrNegative]
                /\ Returns("SeekToChunkContaining", dSpaceOffset,
                           Out("err", ErrNegative, NoChunk), 0, i.r)
           ELSE /\ r' = [i.r EXCEPT !.needToResolveSeekPosition = TRUE,
                                    !.seekPosition = dSpaceOffset]
                /\ Returns("SeekToChunkContaining", dSpaceOffset,
                           Out("ok", Nil, NoChunk), 0, i.r)
    /\ UNCHANGED <<pc, cBias, dBias>>

NextChunk ==
    /\ pc = "idle"
    /\ \E i \in {initialize(Begin(r))} :
           IF i.err # Nil
           THEN Continue(At(i.r, "idle", 0, 0, Out("err", i.err, NoChunk)))
           ELSE \E s \in {loopTop(i.r)} : Continue(s)

NextChunkLoop ==
    /\ pc = "loop"
    /\ \E s \in {loopTop(r)} : Continue(s)

NextChunkResolve ==
    /\ pc = "resolve"
    /\ \E s \in {resolveStep(r, cBias, dBias)} : Continue(s)

SourceFails ==
    /\ ~ r.ReadSeeker.isNil
    /\ ~ r.ReadSeeker.broken
    /\ r' = [r EXCEPT !.ReadSeeker.broken = TRUE]
    /\ UNCHANGED <<pc, cBias, dBias, ret, firstErr, lastSeek, hist, seq0, eofSeen,
                   tokenVars>>

Next ==
    \/ DecompressedSize
    \/ \E d \in SeekArgs : SeekToChunkContaining(d)
    \/ NextChunk
    \/ NextChunkLoop
    \/ NextChunkResolve
    \/ SourceFails

Spec == Init /\ [][Next]_vars

\* A call that has started runs on: the Reader has one thread of execution.
FairSpec == Spec /\ WF_vars(NextChunkLoop \/ NextChunkResolve)

(***************************************************************************)
(* The properties.                                                         *)
(***************************************************************************)
Data == r.ReadSeeker.data

\* The last public call was NextChunk and it returned a chunk.
GotChunk == ret.op = "NextChunk" /\ ret.kind = "chunk"

Contains(rng, d) == rng[1] <= d /\ d < rng[2]

\* An error that a NextChunk call may return on a reader that had none: the
\* device failed, or the container holds a node that fails a check.
ExcusedErr ==
    /\ ret.kind = "err"
    /\ \/ ret.err = ErrIO /\ r.ReadSeeker.broken
       \/ ret.err = errInvalidIndexNode /\ Data \notin ValidContainers

\* C1: once a public call has returned an error other than io.EOF, every later
\* public call returns that same error.
C1_StickyErrors ==
    (firstErr # Nil /\ ret.op # "none") => (ret.kind = "err" /\ ret.err = firstErr)

\* C2: the NextChunk call that follows a successful SeekToChunkContaining(d)
\* with 0 <= d < DecompressedSize returns a chunk whose DRange contains d; it
\* fails only when the device failed or the container holds an invalid node.
C2_SeekThenNextContains ==
    (ret.op = "NextChunk" /\ ret.first /\ lastSeek.d < r.decompressedSize)
        => \/ ret.kind = "chunk" /\ Contains(ret.chunk.DRange, lastSeek.d)
           \/ ExcusedErr

\* C2's case: a seek into the inside of a chunk of a child node, after an
\* earlier run to io.EOF.
C2_Witness ==
    /\ ret.op = "NextChunk" /\ ret.first /\ ret.kind = "chunk"
    /\ ret.chunk.DRange[1] < lastSeek.d
    /\ r.currNodeDBias > 0
    /\ seq0.set

LastHigh == IF hist = <<>> THEN 0 ELSE hist[Len(hist)].DRange[2]

\* C3: after SeekToChunkContaining(0) the chunks returned tile DSpace from 0:
\* the first starts at 0, each starts where the one before ended and is not
\* empty, and at io.EOF they end at DecompressedSize; the run fails only when
\* the device failed or the container holds an invalid node.
C3_TilesFromZero ==
    (lastSeek.ok /\ lastSeek.d = 0)
        => /\ \A k \in 1..Len(hist) :
                 /\ hist[k].DRange[1] = (IF k = 1 THEN 0 ELSE hist[k - 1].DRange[2])
                 /\ hist[k].DRange[1] < hist[k].DRange[2]
           /\ (ret.op = "NextChunk" /\ ret.kind = "eof") => LastHigh = r.decompressedSize
           /\ (ret.op = "NextChunk" /\ ret.kind = "err") => ExcusedErr

\* C3's case: a run from 0 to io.EOF over the nodes of a tree.
C3_Witness ==
    /\ lastSeek.ok /\ lastSeek.d = 0
    /\ ret.op = "NextChunk" /\ ret.kind = "eof"
    /\ Len(hist) >= 3
    /\ r.rootNodeCOffset > 0

\* C4: every chunk that NextChunk returns is a leaf entry: its TTag is not
\* 0xFE.
C4_ChunksAreLeaves == GotChunk => ret.chunk.TTag # Branch

\* C5: every NextChunk call terminates.
C5_NextChunkTerminates == (pc # "idle") ~> (pc = "idle")

\* C6: the panic of findChunkContaining is never reached: whenever it is
\* called (at the top of the loop of resolveSeekPosition),
\* dBias <= seekPosition < dBias + dPtrMax holds of the current node.
C6_FindPrecondition ==
    /\ pc # "panic"
    /\ pc = "resolve" => /\ dBias <= r.seekPosition
                         /\ r.seekPosition < dBias + dPtrMax(r.currNode)

\* C6's case: findChunkContaining is about to be called on a child node.
C6_Witness == pc = "resolve" /\ dBias > 0 /\ cBias > 0

\* C7: the CPrimary of every returned chunk has low <= high and lies within
\* [0, CompressedSize].
C7_CPrimaryInContainer ==
    GotChunk => /\ ret.chunk.CPrimary[1] <= ret.chunk.CPrimary[2]
                /\ 0 <= ret.chunk.CPrimary[1]
                /\ ret.chunk.CPrimary[2] <= r.CompressedSize

\* C8: NextChunk returns no chunk with an empty DRange: the chunk it returns is
\* a slot of the current node with that slot's own DRange, every slot skipped
\* on the way to it is empty, and seekPosition is the chunk's high end.
C8_NoEmptyChunk ==
    (GotChunk /\ pc = "idle")
        => /\ ~ Empty(ret.chunk.DRange)
           /\ r.nextChunk >= 1
           /\ ret.chunk = chunk(r.currNode, r.nextChunk - 1, r.currNodeCBias,
                                r.currNodeDBias)
           /\ r.seekPosition = ret.chunk.DRange[2]

\* C8's case: the slot before the returned one is empty and was skipped: the
\* chunk returned before is the slot two back.
C8_Witness ==
    /\ GotChunk /\ pc = "idle"
    /\ r.nextChunk >= 3
    /\ Empty(dOffRange(r.currNode, r.nextChunk - 2, r.currNodeDBias))
    /\ Len(hist) >= 2
    /\ hist[Len(hist) - 1] = chunk(r.currNode, r.nextChunk - 3, r.currNodeCBias,
                                   r.currNodeDBias)

\* The suffix of the chunk sequence q that starts at the chunk containing d.
RECURSIVE SuffixFrom(_, _)
SuffixFrom(q, d) ==
    IF q = <<>> THEN <<>>
    ELSE IF Contains(q[1].DRange, d) THEN q
    ELSE SuffixFrom(Tail(q), d)

IsPrefix(p, q) == Len(p) <= Len(q) /\ p = SubSeq(q, 1, Len(p))

\* C9: on a fully valid container the chunks returned after
\* SeekToChunkContaining(d), 0 <= d < DecompressedSize, are the suffix, from
\* the chunk containing d, of the sequence returned after a seek to 0.
C9_SeekRestartsSequence ==
    (seq0.set /\ lastSeek.ok /\ lastSeek.d < r.decompressedSize
        /\ Data \in ValidContainers)
        => /\ IsPrefix(hist, SuffixFrom(seq0.chunks, lastSeek.d))
           /\ (ret.op = "NextChunk" /\ ret.kind = "eof")
                  => hist = SuffixFrom(seq0.chunks, lastSeek.d)

\* C10: after a successful SeekToChunkContaining(d) with d >= DecompressedSize
\* every NextChunk call, until the next seek, returns io.EOF at once, without
\* a read of the byte source.
C10_SeekPastEndIsEOF ==
    (lastSeek.ok /\ lastSeek.d >= r.decompressedSize)
        => /\ pc = "idle"
           /\ ret.op = "NextChunk" => (ret.kind = "eof" /\ ret.reads = 0)

\* C10's case: a second NextChunk call after a seek past the end of a
\* container that holds data.
C10_Witness ==
    /\ lastSeek.ok /\ lastSeek.d >= r.decompressedSize
    /\ r.decompressedSize > 0
    /\ ret.op = "NextChunk" /\ ~ ret.first /\ ret.kind = "eof"

\* The step is not the device failing: it is a step of a public call.
CallStep == r'.ReadSeeker.broken = r.ReadSeeker.broken

\* C11: io.EOF is not latched.  Once NextChunk has returned io.EOF, and while
\* no call has returned an error, DecompressedSize succeeds, a
\* SeekToChunkContaining(d) with d >= 0 succeeds, and the NextChunk that follows
\* a seek to d < DecompressedSize returns the chunk containing d (or fails
\* because the device failed or a node is invalid).
C11_EOFNotLatched ==
    /\ [](eofSeen => r.err # EOF)
    /\ []((eofSeen /\ ret.op = "NextChunk" /\ ret.first
               /\ lastSeek.d < r.decompressedSize)
            => \/ ret.kind = "chunk" /\ Contains(ret.chunk.DRange, lastSeek.d)
               \/ ExcusedErr)
    /\ [][(eofSeen /\ firstErr = Nil /\ pc = "idle" /\ pc' = "idle" /\ CallStep)
            => /\ ret'.op = "DecompressedSize"
                    => (ret'.kind = "ok" /\ ret'.size = r.decompressedSize)
               /\ (ret'.op = "SeekToChunkContaining" /\ ret'.arg >= 0)
                    => ret'.kind = "ok"]_vars

\* C11's case: after an io.EOF a seek into the container, and NextChunk
\* has returned the chunk at that position.
C11_Witness ==
    /\ eofSeen /\ firstErr = Nil
    /\ ret.op = "NextChunk" /\ ret.first /\ ret.kind = "chunk"
    /\ Contains(ret.chunk.DRange, lastSeek.d)
    /\ lastSeek.d > 0

\* The bytes of the file data at the place of a node of arity a at offset off.
Candidate(data, off, a) == SubSeq(data, off + 1, off + nodeSize(a))

\* The file holds, whole, a node of arity a at offset off that passes valid.
ValidNodeAt(data, off, a) ==
    /\ a # 0 /\ off >= 0 /\ off + nodeSize(a) <= Len(data)
    /\ valid(Candidate(data, off, a))

\* The arity byte of the head placement and of the tail placement.
HeadArity(data) == data[4]
TailArity(data) == data[Len(data)]
TailOffset(data) == Len(data) - nodeSize(TailArity(data))

\* The containers with no valid node at the head or at the tail placement.
Rootless ==
    {d \in Containers : /\ ~ ValidNodeAt(d, 0, HeadArity(d))
                        /\ ~ ValidNodeAt(d, TailOffset(d), TailArity(d))}

\* C12: on a container with no valid root node at the head or the tail
\* placement DecompressedSize never returns a nil error and NextChunk never
\* returns a chunk.
C12_RootlessRejected ==
    (Data \in Rootless)
        => /\ ~ (ret.op = "DecompressedSize" /\ ret.kind = "ok")
           /\ ~ GotChunk

StartsWithMagic(data) == data[1] = magic[0] /\ data[2] = magic[1] /\ data[3] = magic[2]

\* The containers that do not start with the magic and whose last
\* nodeSize(A) bytes, A their last byte, are a valid node with cPtrMax the
\* length of the file.
TailRooted ==
    {d \in Containers : /\ ~ StartsWithMagic(d)
                        /\ ValidNodeAt(d, TailOffset(d), TailArity(d))
                        /\ cPtrMax(Candidate(d, TailOffset(d), TailArity(d))) = Len(d)}

\* C13: a container that does not start with the magic but ends with a valid
\* root node is accepted: no public call returns an error that rejects the
\* container, and a call that succeeds has the root at the tail.
C13_TailRootAccepted ==
    (Data \in TailRooted)
        => /\ ret.kind = "err" => ret.err \notin {ErrMagic, ErrMissingRoot}
           /\ (ret.op # "none" /\ ret.kind # "err")
                  => /\ r.rootNodeCOffset = TailOffset(Data)
                     /\ r.rootNodeArity = TailArity(Data)

\* The root node that the Reader holds as accepted is a node of the file that
\* passes valid, at offset 0 or at the tail, with cPtrMax = CompressedSize.
RootAccepted ==
    /\ r.rootNodeArity # 0
    /\ r.rootNodeCOffset \in {0, r.CompressedSize - nodeSize(r.rootNodeArity)}
    /\ ValidNodeAt(Data, r.rootNodeCOffset, r.rootNodeArity)
    /\ r.rootNodeCOffset + nodeSize(r.rootNodeArity) <= r.CompressedSize
    /\ cPtrMax(Candidate(Data, r.rootNodeCOffset, r.rootNodeArity)) = r.CompressedSize
    /\ dPtrMax(Candidate(Data, r.rootNodeCOffset, r.rootNodeArity)) = r.decompressedSize

\* C14: whenever initialization has succeeded (a public call has returned
\* without an error) the accepted root node passed validation, lies inside the
\* container at offset 0 or at CompressedSize - nodeSize(arity), and has
\* cPtrMax = CompressedSize.
C14_AcceptedRootIsValid ==
    (ret.op # "none" /\ ret.kind # "err") => RootAccepted

\* The file starts with the magic and with a valid node whose cPtrMax is the
\* length of the file: the root that findRootNode finds at the head.
HeadRooted(data) ==
    /\ StartsWithMagic(data)
    /\ ValidNodeAt(data, 0, HeadArity(data))
    /\ cPtrMax(Candidate(data, 0, HeadArity(data))) = Len(data)

\* The containers whose root is valid but for a version other than 1.
UnsupportedVersion ==
    {d \in Containers : /\ HeadRooted(d)
                        /\ version(Candidate(d, 0, HeadArity(d))) # 1}

\* C15: on a container whose root is valid but for a version byte other than 1
\* every public call returns the same error, the unsupported-version error
\* (the error of the device if it failed before the first call).
C15_VersionRejected ==
    (Data \in UnsupportedVersion /\ ret.op # "none")
        => /\ ret.kind = "err" /\ ret.err = firstErr
           /\ \/ firstErr = ErrVersion
              \/ firstErr = ErrIO /\ r.ReadSeeker.broken

\* C15's case: a later call, which reads nothing, returns the version error.
C15_Witness ==
    /\ Data \in UnsupportedVersion
    /\ ret.op = "NextChunk" /\ ret.kind = "err" /\ ret.err = ErrVersion
    /\ ret.reads = 0

\* The Reader's configuration is invalid.
BadConfig == r.ReadSeeker.isNil \/ r.CompressedSize < 32

\* C16: with a nil byte source or CompressedSize < 32 every public call, from
\* the first, returns the configuration error, which is stored in r.err, and
\* the byte source is never accessed: no call reads, the source's position and
\* the node buffer are as at construction.
C16_ConfigErrorEager ==
    (BadConfig /\ ret.op # "none")
        => /\ ret.kind = "err"
           /\ ret.err = (IF r.ReadSeeker.isNil THEN ErrReadSeeker ELSE ErrCompressedSize)
           /\ r.err = ret.err
           /\ ret.reads = 0
           /\ r.ReadSeeker.pos = 0
           /\ r.currNode = <<>>

\* C16's case: a call on a Reader over a file with CompressedSize 31.
C16_Witness ==
    /\ ~ r.ReadSeeker.isNil /\ r.CompressedSize < 32
    /\ ret.op = "NextChunk" /\ ret.kind = "err" /\ ret.err = ErrCompressedSize

\* C17: SeekToChunkContaining(d) with d < 0 on an initialized Reader with no
\* error returns the negative-position error, leaves seekPosition and
\* needToResolveSeekPosition as they were and stores the error in r.err; every
\* later public call returns it.
C17_NegativeSeek ==
    /\ [](r.err = ErrNegative => (ret.kind = "err" /\ ret.err = ErrNegative))
    /\ [][(r.initialized /\ r.err = Nil /\ pc = "idle" /\ pc' = "idle" /\ CallStep
              /\ ret'.op = "SeekToChunkContaining" /\ ret'.arg < 0)
            => /\ ret'.kind = "err" /\ ret'.err = ErrNegative
               /\ r'.err = ErrNegative
               /\ r'.seekPosition = r.seekPosition
               /\ r'.needToResolveSeekPosition = r.needToResolveSeekPosition]_vars

\* C17's case: a call after a negative seek that was made in the middle of a
\* node's chunks (nothing to resolve, the seek position inside the container).
C17_Witness ==
    /\ r.err = ErrNegative
    /\ ret.op = "NextChunk" /\ ret.kind = "err"
    /\ ~ r.needToResolveSeekPosition /\ r.seekPosition > 0

\* At the top of the loop of resolveSeekPosition: the slot that
\* findChunkContaining returns, whether the descent goes through it, and the
\* child node that the file holds at the place the slot points to.
Slot == findChunkContaining(r.currNode, r.seekPosition, dBias)
AtBranch == pc = "resolve" /\ Slot # NotFound /\ ~ isLeaf(r.currNode, Slot)
ChildOffset == cOff(r.currNode, Slot, cBias)
ChildArity == IF 0 <= ChildOffset /\ ChildOffset + 4 <= Len(Data) THEN Data[ChildOffset + 4] ELSE 0
ChildInFile ==
    /\ ChildArity # 0
    /\ ChildOffset + nodeSize(ChildArity) <= Len(Data)
    /\ ~ r.ReadSeeker.broken
Child == Candidate(Data, ChildOffset, ChildArity)

\* C18: in a step of the descent through a branch slot i, a child node is
\* entered only if its dPtrMax is the parent's DSize of slot i; if the child
\* that the file holds has another dPtrMax, the NextChunk call returns the
\* invalid-index-node error (and so no chunk).
C18_ChildDSizeChecked ==
    [][(AtBranch /\ CallStep)
        => /\ pc' = "resolve"
                => dPtrMax(r'.currNode) = dSize(r.currNode, Slot)
           /\ (ChildInFile /\ dPtrMax(Child) # dSize(r.currNode, Slot))
                => /\ pc' = "idle"
                   /\ ret'.op = "NextChunk" /\ ret'.kind = "err"
                   /\ ret'.err = errInvalidIndexNode /\ r'.err = errInvalidIndexNode]_vars

\* C18's case: NextChunk has failed on the second child of BadChildFile, a
\* valid node whose dPtrMax is 1 where the root's slot has the size 2.
C18_Witness ==
    /\ Data = BadChildFile
    /\ ret.op = "NextChunk" /\ ret.kind = "err" /\ ret.err = errInvalidIndexNode
    /\ Slice(r.currNode, 0, Len(TreeChildB(1))) = TreeChildB(1)
    /\ valid(r.currNode)

\* The codec of the root node that the Reader holds as accepted.
RootCodec == codec(Candidate(Data, r.rootNodeCOffset, r.rootNodeArity))

\* C19: in a step of the descent through a branch slot a child node is
\* entered only if its codec is a bitwise subset of its parent's; if the child
\* that the file holds has a codec bit that its parent has not, the NextChunk
\* call returns the invalid-index-node error.  The Codec of every chunk
\* returned under an accepted root is a bitwise subset of the root's codec.
C19_CodecSubset ==
    /\ [][(AtBranch /\ CallStep)
            => /\ pc' = "resolve"
                    => bitwiseSubset(codec(r.currNode), codec(r'.currNode))
               /\ (ChildInFile /\ ~ bitwiseSubset(codec(r.currNode), codec(Child)))
                    => /\ pc' = "idle"
                       /\ ret'.op = "NextChunk" /\ ret'.kind = "err"
                       /\ ret'.err = errInvalidIndexNode
                       /\ r'.err = errInvalidIndexNode]_vars
    /\ []((GotChunk /\ r.rootNodeArity # 0)
            => bitwiseSubset(RootCodec, ret.chunk.Codec))

\* C19's case: a chunk of a child whose codec is a proper subset of the
\* root's, from a container whose other child was refused for its codec.
C19_Witness ==
    /\ GotChunk /\ r.rootNodeArity # 0
    /\ ret.chunk.Codec # RootCodec
    /\ eofSeen

\* A call of a public method made on an initialized Reader without an error,
\* that returns within the step.
CleanCall ==
    /\ r.initialized /\ r.err = Nil
    /\ pc = "idle" /\ pc' = "idle"
    /\ CallStep

\* C20: on an initialized Reader without an error, SeekToChunkContaining(d)
\* with d >= 0 makes no call of the byte source and changes seekPosition (to
\* d) and needToResolveSeekPosition (to true) only; DecompressedSize makes no
\* call of the byte source and changes no field of the Reader.  The node
\* buffer, the biases and nextChunk are left as they were by both.
C20_SeekAndSizeFrame ==
    [][CleanCall
        => /\ (ret'.op = "SeekToChunkContaining" /\ ret'.arg >= 0)
                => /\ ret'.kind = "ok" /\ ret'.reads = 0
                   /\ r' = [r EXCEPT !.ReadSeeker.calls = 0,
                                      !.seekPosition = ret'.arg,
                                      !.needToResolveSeekPosition = TRUE]
                   /\ cBias' = cBias /\ dBias' = dBias
           /\ ret'.op = "DecompressedSize"
                => /\ ret'.kind = "ok" /\ ret'.reads = 0
                   /\ r' = [r EXCEPT !.ReadSeeker.calls = 0]
                   /\ cBias' = cBias /\ dBias' = dBias]_vars

\* C20's case: a seek to another position that returned in the middle of a
\* node, after reads of the byte source, with the node and nextChunk kept.
C20_Witness ==
    /\ ret.op = "SeekToChunkContaining" /\ ret.kind = "ok" /\ ret.reads = 0
    /\ r.initialized /\ r.err = Nil
    /\ r.nextChunk > 0 /\ r.currNode # <<>>
    /\ r.ReadSeeker.pos > 0
    /\ r.seekPosition = ret.arg /\ r.seekPosition > 0
    /\ r.needToResolveSeekPosition

\* No SeekToChunkContaining call was made and no call has returned an error.
NoSeekYet == ~ lastSeek.ok /\ firstErr = Nil

\* A Reader between calls on which no call but DecompressedSize was made.
Fresh == NoSeekYet /\ hist = <<>> /\ ~ eofSeen /\ pc = "idle"

\* C21: on a valid container the NextChunk calls made with no seek before
\* them return the chunks from DSpace offset 0 on, as they do after
\* SeekToChunkContaining(0): a SeekToChunkContaining(0) call made on a Reader
\* that has returned nothing but DecompressedSize leaves the very Reader that
\* the initialize of a first NextChunk call leaves, whether DecompressedSize
\* was called before or not.
C21_NoSeekStartsAtZero ==
    /\ []((NoSeekYet /\ Data \in ValidContainers)
            => /\ \A k \in 1..Len(hist) :
                     /\ hist[k].DRange[1] = (IF k = 1 THEN 0 ELSE hist[k - 1].DRange[2])
                     /\ hist[k].DRange[1] < hist[k].DRange[2]
               /\ (ret.op = "NextChunk" /\ ret.kind = "eof")
                      => LastHigh = r.decompressedSize)
    /\ [][(Fresh /\ Data \in ValidContainers /\ CallStep
             /\ ret'.op = "SeekToChunkContaining" /\ ret'.arg = 0 /\ ret'.kind = "ok")
            => \A x \in {initialize(Begin(r))} :
                   x.err = Nil /\ Begin(r') = Begin(x.r)]_vars

\* C21's case: a run over a tree from the first NextChunk call to io.EOF,
\* with no seek made.
C21_Witness ==
    /\ NoSeekYet /\ lastSeek.d = 0
    /\ ret.op = "NextChunk" /\ ret.kind = "eof"
    /\ Len(hist) >= 3
    /\ hist[1].DRange[1] = 0
    /\ Data = TreeFile

\* C22: a byte source that is an io.ReaderAt is read through ReadAt: Seek is
\* never called on it, and what the Reader has read of it, it has read
\* through ReadAt.
C22_PositionalReads ==
    r.ReadSeeker.isReaderAt
        => /\ ~ r.ReadSeeker.seekCalled
           /\ ret.op # "none" => r.ReadSeeker.readAtCalled

\* The tail of the file holds a valid node whose CPtrMax is the file's size.
TailAcceptable(data) ==
    /\ ValidNodeAt(data, TailOffset(data), TailArity(data))
    /\ cPtrMax(Candidate(data, TailOffset(data), TailArity(data))) = Len(data)

\* The first public call on a Reader with good parameters and a working
\* source: the call that runs findRootNode.
FirstCall ==
    /\ ~ r.initialized /\ ~ BadConfig /\ ~ r.ReadSeeker.broken
    /\ pc = "idle"
    /\ CallStep

\* The step is a call that does no more than initialize before it returns.
InitializeOnly == ret'.op \in {"DecompressedSize", "SeekToChunkContaining"}

\* C23: findRootNode tries the head first.  When the head holds a valid node
\* whose CPtrMax is CompressedSize, that node is the root (offset 0), also
\* when the tail holds an acceptable root, and the tail is not read: a call
\* that does no more than initialize makes 2 reads and leaves the source at
\* the end of the head node.  When the file starts with the magic, the head
\* holds no such node and the tail does, the root is the tail's.
C23_HeadFirst ==
    [][FirstCall
        => /\ HeadRooted(Data)
                => /\ r'.rootNodeCOffset = 0
                   /\ r'.rootNodeArity = HeadArity(Data)
                   /\ r'.decompressedSize = dPtrMax(Candidate(Data, 0, HeadArity(Data)))
                   /\ r'.ReadSeeker.pos = nodeSize(HeadArity(Data))
                   /\ InitializeOnly => ret'.reads = 2
           /\ (InitializeOnly /\ r'.ReadSeeker.pos = r.CompressedSize)
                => ~ HeadRooted(Data)
           /\ (StartsWithMagic(Data) /\ ~ HeadRooted(Data) /\ TailAcceptable(Data))
                => /\ r'.rootNodeCOffset = TailOffset(Data)
                   /\ r'.rootNodeArity = TailArity(Data)]_vars

\* C23's case: DecompressedSize as the first call on the container with a
\* root at either end: the size is the head root's.
C23_Witness ==
    /\ Data = BothRootsFile /\ TailAcceptable(Data) /\ HeadRooted(Data)
    /\ ret.op = "DecompressedSize" /\ ret.kind = "ok"
    /\ ret.reads = 2
    /\ ret.size = dPtrMax(Candidate(Data, 0, HeadArity(Data)))
    /\ ret.size # dPtrMax(Candidate(Data, TailOffset(Data), TailArity(Data)))
    /\ r.rootNodeCOffset = 0

\* The CSpace ceiling that the current node declares: its CBias plus CPtrMax.
Ceiling == cBias + cPtrMax(r.currNode)

\* C24: in the descent, a child node in the file whose bytes
\* [ChildOffset, ChildOffset + nodeSize(ChildArity)) do not all lie below the
\* ceiling of its parent is refused: the NextChunk call returns the
\* invalid-index-node error, stored in r.err.
C24_ChildBelowCeiling ==
    [][(AtBranch /\ CallStep /\ ChildInFile
          /\ ChildOffset + nodeSize(ChildArity) > Ceiling)
        => /\ pc' = "idle"
           /\ ret'.op = "NextChunk" /\ ret'.kind = "err"
           /\ ret'.err = errInvalidIndexNode
           /\ r'.err = errInvalidIndexNode]_vars

(***************************************************************************)
(* The methods of rNode on their own.  The node buffer of a Reader that    *)
(* has no byte source holds the receiver, and seekPosition, nextChunk and  *)
(* the locals cBias and dBias hold the arguments; a step calls one method  *)
(* and keeps what it returned in ret.                                      *)
(***************************************************************************)
\* The node b with the checksum of its bytes [6, size) stored at 4 and 5.
Refit(b) ==
    Once(foldedChecksum(Slice(b, 6, nodeSize(at(b, 3)))),
         LAMBDA sum : [b EXCEPT ![5] = sum[1], ![6] = sum[2]])

\* A node with a CLen in two of its slots: the first slot's 1024 bytes end
\* below CPtrMax, the second's above it.
CLenNode ==
    Node(<<Entry(Leaf, 0, 64, 1, NoTag), Entry(Leaf, 2, 2500, 1, 0),
           Entry(Leaf, 2, 2600, 0, NoTag)>>, 5, 3000, 1, 1)

\* The byte values written over a byte of a node.
PokeValues == {0, 1, 2, 100, 192, 253, 254, 255}

\* The bytes of a node that take any value: of a pointer, the 3 low bytes
\* (the pointers of the model stay below 2^31).
Pokable(b) ==
    {k \in 0..(Len(b) - 1) : k < 8 \/ k % 8 \in {0, 1, 2, 6, 7}}

\* The buffers that valid is called on: a valid node with one byte
\* overwritten, with the checksum as it was and with the checksum of the new
\* bytes.
Overwritten(b) ==
    UNION {{Poke(b, k, v), Refit(Poke(b, k, v))} : k \in Pokable(b), v \in PokeValues}

\* The valid nodes that the other methods are called on.
Nodes == {FlatRoot(80), TreeRoot, TreeChildA, MixedRoot, CLenNode}

MaxD == 9

\* The slots asked for: those of a node of arity 3, one past them, and the
\* tag 255 of a slot that names no other.
Slots == (0..4) \cup {NoTag}

Receiver(b, d, i) ==
    [NewReader(NilReadSeeker, 0) EXCEPT !.currNode = b, !.seekPosition = d,
                                        !.nextChunk = i]

InitMethods ==
    /\ \/ /\ r \in {Receiver(b, 0, 0) :
                       b \in Overwritten(FlatRoot(80)) \cup Overwritten(MixedRoot)}
          /\ cBias = 0
          /\ dBias = 0
       \/ /\ r \in {Receiver(b, d, i) : b \in Nodes, d \in 0..MaxD, i \in Slots}
          /\ cBias \in {0, 4}
          /\ dBias \in {0, 3}
    /\ pc = "idle"
    /\ ret = NoRet
    /\ firstErr = Nil
    /\ lastSeek = [ok |-> FALSE, d |-> 0, fresh |-> FALSE]
    /\ hist = <<>>
    /\ seq0 = [set |-> FALSE, chunks |-> <<>>]
    /\ eofSeen = FALSE
    /\ InitToken

Called(op, result) ==
    /\ ret' = [op |-> op, result |-> result]
    /\ UNCHANGED <<r, pc, cBias, dBias, firstErr, lastSeek, hist, seq0, eofSeen,
                   tokenVars>>

CallValid == \E v \in {valid(r.currNode)} : Called("valid", v)

\* The other methods are called on a node that valid has accepted.
CallFindChunkContaining ==
    /\ r.currNode \in Nodes
    /\ \E i \in {findChunkContaining(r.currNode, r.seekPosition, dBias)} :
           Called("findChunkContaining", i)

CallCOffRange ==
    /\ r.currNode \in Nodes
    /\ \E rng \in {cOffRange(r.currNode, r.nextChunk, cBias)} :
           Called("cOffRange", rng)

NextMethods ==
    \/ CallValid
    \/ CallFindChunkContaining
    \/ CallCOffRange

MethodsSpec == InitMethods /\ [][NextMethods]_vars

\* The conditions of a valid node, on the buffer b with A = b[3].
ValidAsStated(b) ==
    LET A == at(b, 3)
    IN  /\ <<at(b, 0), at(b, 1), at(b, 2)>> = <<magic[0], magic[1], magic[2]>>
        /\ A # 0
        /\ at(b, (16 * A) + 15) = A
        /\ \A i \in 0..A : at(b, (8 * i) + 6) = 0
        /\ \A i \in 0..(A - 1) : tTag(b, i) \notin 192..253
        /\ at(b, (8 * A) + 7) # 0
        /\ \A i \in 1..A : \A j \in i..A : u48LE(b, 8 * i) <= u48LE(b, 8 * j)
        /\ \A i \in 0..(A - 1) : cOff(b, i, 0) <= cPtrMax(b)
        /\ at(b, (16 * A) + 14) # 0
        /\ <<at(b, 4), at(b, 5)>> = foldedChecksum(Slice(b, 6, (16 * A) + 16))

\* C25: valid returns true exactly for the buffers that meet every one of
\* the conditions: the magic, a non-zero arity, the arity again in the last
\* byte, zero reserved bytes, no TTag in [0xC0, 0xFE), a non-zero codec,
\* non-decreasing DPtrs, no CPtr above CPtrMax, a non-zero version, and the
\* folded CRC-32 of the bytes [6, 16A+16) in bytes 4 and 5.
C25_ValidExactly ==
    ret.op = "valid" => (ret.result <=> ValidAsStated(r.currNode))

\* C25's case: valid refused a buffer whose only fault is its last byte, the
\* arity again: the checksum is that of the bytes as they are.
C25_Witness ==
    /\ ret.op = "valid" /\ ~ ret.result
    /\ at(r.currNode, 3) # at(r.currNode, nodeSize(at(r.currNode, 3)) - 1)
    /\ r.currNode = Refit(r.currNode)
    /\ Len(r.currNode) = nodeSize(at(r.currNode, 3))
    /\ validNoDup(r.currNode)

\* C26: on a valid node and for d with dBias <= d < dBias + dPtrMax,
\* findChunkContaining(d, dBias) returns the smallest slot i with
\* dOff(i+1, dBias) > d; the slot is not empty and
\* dOff(i, dBias) <= d < dOff(i+1, dBias).
C26_FindSmallestSlot ==
    (/\ ret.op = "findChunkContaining"
     /\ dBias <= r.seekPosition
     /\ r.seekPosition < dBias + dPtrMax(r.currNode))
        => /\ ret.result \in 0..(arity(r.currNode) - 1)
           /\ dOff(r.currNode, ret.result + 1, dBias) > r.seekPosition
           /\ \A j \in 0..(ret.result - 1) :
                  ~ (dOff(r.currNode, j + 1, dBias) > r.seekPosition)
           /\ dOff(r.currNode, ret.result, dBias) <= r.seekPosition
           /\ ~ Empty(dOffRange(r.currNode, ret.result, dBias))

\* C26's case: with a DBias, the slot found comes after an empty slot and d
\* lies inside it.
C26_Witness ==
    /\ ret.op = "findChunkContaining"
    /\ dBias > 0
    /\ ret.result >= 2
    /\ Empty(dOffRange(r.currNode, ret.result - 1, dBias))
    /\ dOff(r.currNode, ret.result, dBias) < r.seekPosition
    /\ r.seekPosition < dOff(r.currNode, ret.result + 1, dBias)

Min(x, y) == IF x < y THEN x ELSE y

\* C27: on a valid node cOffRange(i, cBias) is, for i < arity,
\* [cOff(i), min(cBias + cPtrMax, cOff(i) + 1024 * cLen(i))] when cLen(i) is
\* not 0 and [cOff(i), cBias + cPtrMax] when it is; for i >= arity it is the
\* empty range at cBias + cPtrMax.  Its low end is never above its high end.
C27_COffRange ==
    ret.op = "cOffRange"
        => /\ ret.result =
                  IF r.nextChunk >= arity(r.currNode)
                  THEN <<cBias + cPtrMax(r.currNode), cBias + cPtrMax(r.currNode)>>
                  ELSE IF cLen(r.currNode, r.nextChunk) # 0
                  THEN <<cOff(r.currNode, r.nextChunk, cBias),
                         Min(cBias + cPtrMax(r.currNode),
                             cOff(r.currNode, r.nextChunk, cBias)
                                 + 1024 * cLen(r.currNode, r.nextChunk))>>
                  ELSE <<cOff(r.currNode, r.nextChunk, cBias),
                         cBias + cPtrMax(r.currNode)>>
           /\ ret.result[1] <= ret.result[2]

\* C27's case: with a CBias, a slot whose CLen ends it below CPtrMax.
C27_Witness ==
    /\ ret.op = "cOffRange"
    /\ cBias > 0
    /\ r.nextChunk < arity(r.currNode)
    /\ cLen(r.currNode, r.nextChunk) # 0
    /\ ret.result[2] = ret.result[1] + 1024 * cLen(r.currNode, r.nextChunk)
    /\ ret.result[2] < cBias + cPtrMax(r.currNode)

(***************************************************************************)
(* The Reader on the valid containers, with a caller that goes on calling  *)
(* NextChunk: a call that has started runs on, and a NextChunk call is     *)
(* made again and again.                                                   *)
(***************************************************************************)
InitValid ==
    /\ Init
    /\ r \in {NewReader(c.ReadSeeker, c.CompressedSize) :
                 c \in {Config(data) : data \in ValidContainers}}

DrainSpec ==
    /\ InitValid
    /\ [][Next]_vars
    /\ WF_vars(NextChunkLoop \/ NextChunkResolve)
    /\ WF_vars(NextChunk)

\* A step that is no SeekToChunkContaining call that moves the cursor.
SeekFree == lastSeek' = [lastSeek EXCEPT !.fresh = @ /\ lastSeek'.fresh]

\* NextChunk has returned io.EOF, or the Reader holds an error.
Drained == (ret.op = "NextChunk" /\ ret.kind = "eof") \/ r.err # Nil

\* C28: on a valid container the chunks that NextChunk returns with no seek
\* between them have strictly increasing low ends, each at or after the high
\* end of the chunk before; and when the seeks come to an end, the NextChunk
\* calls reach io.EOF (or the error of a failed device).
C28_OrderedAndFinite ==
    /\ [](Data \in ValidContainers
            => \A k \in 1..(Len(hist) - 1) :
                   /\ hist[k].DRange[1] < hist[k + 1].DRange[1]
                   /\ hist[k].DRange[2] <= hist[k + 1].DRange[1])
    /\ (<>[][SeekFree]_vars) => []<>Drained

\* C28's case: a run that started inside a tree (a seek to a position past
\* the first child) and went through all the chunks after it to io.EOF.
C28_Witness ==
    /\ lastSeek.ok /\ lastSeek.d > 0
    /\ ret.op = "NextChunk" /\ ret.kind = "eof"
    /\ Len(hist) >= 2
    /\ hist[1].DRange[1] > 0
    /\ r.err = Nil

\* The reads of the byte source that the step makes (the count of a call's
\* reads stops at MaxReads).
ReadsOfStep == r'.ReadSeeker.calls - r.ReadSeeker.calls

\* C29: a step of the descent that enters a child node makes at most one
\* read of the byte source, as does the load of the root node that starts the
\* descent; a call that does no more than locate the root makes at most two
\* short reads and the loads of the two candidates.
C29_ReadsPerNode ==
    [][/\ (AtBranch /\ CallStep /\ pc' = "resolve" /\ r'.ReadSeeker.calls < MaxReads)
            => ReadsOfStep <= 1
       /\ (FirstCall /\ InitializeOnly) => ret'.reads <= 2 + 2]_vars

(***************************************************************************)
(* The token package: the table of the built-in IDs and the init function  *)
(* that fills builtInsByName from it, one entry of the table in a step.    *)
(***************************************************************************)
nBuiltInIDs == 256

IDOpenParen == 2
IDCloseParen == 3
IDOpenBracket == 4
IDCloseBracket == 5
IDOpenCurly == 6
IDCloseCurly == 7
IDDot == 8
IDDotDot == 9
IDComma == 10
IDExclam == 11
IDQuestion == 12
IDColon == 13
IDSemicolon == 14
IDDollar == 15
IDEq == 16
IDPlusEq == 17
IDMinusEq == 18
IDStarEq == 19
IDSlashEq == 20
IDShiftLEq == 21
IDShiftREq == 22
IDAmpEq == 23
IDAmpHatEq == 24
IDPipeEq == 25
IDHatEq == 26
IDPercentEq == 27
IDTildePlusEq == 28
IDPlus == 33
IDMinus == 34
IDStar == 35
IDSlash == 36
IDShiftL == 37
IDShiftR == 38
IDAmp == 39
IDAmpHat == 40
IDPipe == 41
IDHat == 42
IDPercent == 43
IDTildePlus == 44
IDNotEq == 48
IDLessThan == 49
IDLessEq == 50
IDEqEq == 51
IDGreaterEq == 52
IDGreaterThan == 53
IDAnd == 56
IDOr == 57
IDNot == 58
IDAs == 59
IDRef == 60
IDDeref == 61
IDFunc == 112
IDAssert == 113
IDWhile == 114
IDIf == 115
IDElse == 116
IDReturn == 117
IDBreak == 118
IDContinue == 119
IDStruct == 120
IDUse == 121
IDVar == 122
IDPre == 123
IDInv == 124
IDPost == 125
IDVia == 126
IDPub == 127
IDPri == 128
IDError == 129
IDSuspension == 130
IDPackageID == 131
IDConst == 132
IDTry == 133
IDIterate == 134
IDYield == 135
IDArray == 144
IDNptr == 145
IDPtr == 146
IDSlice == 147
IDFalse == 148
IDTrue == 149
IDZero == 150
IDI8 == 152
IDI16 == 153
IDI32 == 154
IDI64 == 155
IDU8 == 156
IDU16 == 157
IDU32 == 158
IDU64 == 159
IDDoubleZ == 160
IDDiamond == 161
IDUnderscore == 162
IDThis == 163
IDIn == 164
IDOut == 165
IDSLICE == 166
IDBase == 167
IDBool == 168
IDIOReader == 169
IDIOWriter == 170
IDStatus == 171
IDImageConfig == 172
IDMark == 176
IDReadU8 == 177
IDReadU16BE == 178
IDReadU16LE == 179
IDReadU32BE == 180
IDReadU32LE == 181
IDReadU64BE == 182
IDReadU64LE == 183
IDSinceMark == 184
IDWriteU8 == 185
IDWriteU16BE == 186
IDWriteU16LE == 187
IDWriteU32BE == 188
IDWriteU32LE == 189
IDWriteU64BE == 190
IDWriteU64LE == 191
IDIsError == 192
IDIsOK == 193
IDIsSuspension == 194
IDCopyFromHistory32 == 195
IDCopyFromReader32 == 196
IDCopyFromSlice == 197
IDCopyFromSlice32 == 198
IDSkip32 == 199
IDSkip64 == 200
IDLength == 201
IDAvailable == 202
IDPrefix == 203
IDSuffix == 204
IDLimit == 205
IDLowBits == 206
IDHighBits == 207
IDUnreadU8 == 208
IDIsMarked == 209

\* The entries that the composite literal of builtInsByID lists, each with its
\* index: <<index, name, id>>.  The two names that are one non-ASCII
\* character are written as its code point, "U+2124" and "U+25CA".
builtInsListed ==
    {<<IDOpenParen, "(", IDOpenParen>>,
     <<IDCloseParen, ")", IDCloseParen>>,
     <<IDOpenBracket, "[", IDOpenBracket>>,
     <<IDCloseBracket, "]", IDCloseBracket>>,
     <<IDOpenCurly, "{", IDOpenCurly>>,
     <<IDCloseCurly, "}", IDCloseCurly>>,
     <<IDDot, ".", IDDot>>,
     <<IDDotDot, "..", IDDotDot>>,
     <<IDComma, ",", IDComma>>,
     <<IDExclam, "!", IDExclam>>,
     <<IDQuestion, "?", IDQuestion>>,
     <<IDColon, ":", IDColon>>,
     <<IDSemicolon, ";", IDSemicolon>>,
     <<IDDollar, "$", IDDollar>>,
     <<IDEq, "=", IDEq>>,
     <<IDPlusEq, "+=", IDPlusEq>>,
     <<IDMinusEq, "-=", IDMinusEq>>,
     <<IDStarEq, "*=", IDStarEq>>,
     <<IDSlashEq, "/=", IDSlashEq>>,
     <<IDShiftLEq, "<<=", IDShiftLEq>>,
     <<IDShiftREq, ">>=", IDShiftREq>>,
     <<IDAmpEq, "&=", IDAmpEq>>,
     <<IDAmpHatEq, "&^=", IDAmpHatEq>>,
     <<IDPipeEq, "|=", IDPipeEq>>,
     <<IDHatEq, "^=", IDHatEq>>,
     <<IDPercentEq, "%=", IDPercentEq>>,
     <<IDTildePlusEq, "~+=", IDTildePlusEq>>,
     <<IDPlus, "+", IDPlus>>,
     <<IDMinus, "-", IDMinus>>,
     <<IDStar, "*", IDStar>>,
     <<IDSlash, "/", IDSlash>>,
     <<IDShiftL, "<<", IDShiftL>>,
     <<IDShiftR, ">>", IDShiftR>>,
     <<IDAmp, "&", IDAmp>>,
     <<IDAmpHat, "&^", IDAmpHat>>,
     <<IDPipe, "|", IDPipe>>,
     <<IDHat, "^", IDHat>>,
     <<IDPercent, "%", IDPercent>>,
     <<IDTildePlus, "~+", IDPercent>>,
     <<IDNotEq, "!=", IDNotEq>>,
     <<IDLessThan, "<", IDLessThan>>,
     <<IDLessEq, "<=", IDLessEq>>,
     <<IDEqEq, "==", IDEqEq>>,
     <<IDGreaterEq, ">=", IDGreaterEq>>,
     <<IDGreaterThan, ">", IDGreaterThan>>,
     <<IDAnd, "and", IDAnd>>,
     <<IDOr, "or", IDOr>>,
     <<IDNot, "not", IDNot>>,
     <<IDAs, "as", IDAs>>,
     <<IDRef, "ref", IDRef>>,
     <<IDDeref, "deref", IDDeref>>,
     <<IDFunc, "func", IDFunc>>,
     <<IDAssert, "assert", IDAssert>>,
     <<IDWhile, "while", IDWhile>>,
     <<IDIf, "if", IDIf>>,
     <<IDElse, "else", IDElse>>,
     <<IDReturn, "return", IDReturn>>,
     <<IDBreak, "break", IDBreak>>,
     <<IDContinue, "continue", IDContinue>>,
     <<IDStruct, "struct", IDStruct>>,
     <<IDUse, "use", IDUse>>,
     <<IDVar, "var", IDVar>>,
     <<IDPre, "pre", IDPre>>,
     <<IDInv, "inv", IDInv>>,
     <<IDPost, "post", IDPost>>,
     <<IDVia, "via", IDVia>>,
     <<IDPub, "pub", IDPub>>,
     <<IDPri, "pri", IDPri>>,
     <<IDError, "error", IDError>>,
     <<IDSuspension, "suspension", IDSuspension>>,
     <<IDPackageID, "packageid", IDPackageID>>,
     <<IDConst, "const", IDConst>>,
     <<IDTry, "try", IDTry>>,
     <<IDIterate, "iterate", IDIterate>>,
     <<IDYield, "yield", IDYield>>,
     <<IDArray, "array", IDArray>>,
     <<IDNptr, "nptr", IDNptr>>,
     <<IDPtr, "ptr", IDPtr>>,
     <<IDSlice, "slice", IDSlice>>,
     <<IDFalse, "false", IDFalse>>,
     <<IDTrue, "true", IDTrue>>,
     <<IDZero, "0", IDZero>>,
     <<IDI8, "i8", IDI8>>,
     <<IDI16, "i16", IDI16>>,
     <<IDI32, "i32", IDI32>>,
     <<IDI64, "i64", IDI64>>,
     <<IDU8, "u8", IDU8>>,
     <<IDU16, "u16", IDU16>>,
     <<IDU32, "u32", IDU32>>,
     <<IDU64, "u64", IDU64>>,
     <<IDDoubleZ, "U+2124", IDDoubleZ>>,
     <<IDDiamond, "U+25CA", IDDiamond>>,
     <<IDUnderscore, "_", IDUnderscore>>,
     <<IDThis, "this", IDThis>>,
     <<IDIn, "in", IDIn>>,
     <<IDOut, "out", IDOut>>,
     <<IDSLICE, "SLICE", IDSLICE>>,
     <<IDBase, "base", IDBase>>,
     <<IDBool, "bool", IDBool>>,
     <<IDIOReader, "io_reader", IDIOReader>>,
     <<IDIOWriter, "io_writer", IDIOWriter>>,
     <<IDStatus, "status", IDStatus>>,
     <<IDImageConfig, "image_config", IDImageConfig>>,
     <<IDMark, "mark", IDMark>>,
     <<IDReadU8, "read_u8", IDReadU8>>,
     <<IDReadU16BE, "read_u16be", IDReadU16BE>>,
     <<IDReadU16LE, "read_u16le", IDReadU16LE>>,
     <<IDReadU32BE, "read_u32be", IDReadU32BE>>,
     <<IDReadU32LE, "read_u32le", IDReadU32LE>>,
     <<IDReadU64BE, "read_u64be", IDReadU64BE>>,
     <<IDReadU64LE, "read_u64le", IDReadU64LE>>,
     <<IDSinceMark, "since_mark", IDSinceMark>>,
     <<IDWriteU8, "write_u8", IDWriteU8>>,
     <<IDWriteU16BE, "write_u16be", IDWriteU16BE>>,
     <<IDWriteU16LE, "write_u16le", IDWriteU16LE>>,
     <<IDWriteU32BE, "write_u32be", IDWriteU32BE>>,
     <<IDWriteU32LE, "write_u32le", IDWriteU32LE>>,
     <<IDWriteU64BE, "write_u64be", IDWriteU64BE>>,
     <<IDWriteU64LE, "write_u64le", IDWriteU64LE>>,
     <<IDIsError, "is_error", IDIsError>>,
     <<IDIsOK, "is_ok", IDIsOK>>,
     <<IDIsSuspension, "is_suspension", IDIsSuspension>>,
     <<IDCopyFromHistory32, "copy_from_history32", IDCopyFromHistory32>>,
     <<IDCopyFromReader32, "copy_from_reader32", IDCopyFromReader32>>,
     <<IDCopyFromSlice, "copy_from_slice", IDCopyFromSlice>>,
     <<IDCopyFromSlice32, "copy_from_slice32", IDCopyFromSlice32>>,
     <<IDSkip32, "skip32", IDSkip32>>,
     <<IDSkip64, "skip64", IDSkip64>>,
     <<IDLength, "length", IDLength>>,
     <<IDAvailable, "available", IDAvailable>>,
     <<IDPrefix, "prefix", IDPrefix>>,
     <<IDSuffix, "suffix", IDSuffix>>,
     <<IDLimit, "limit", IDLimit>>,
     <<IDLowBits, "low_bits", IDLowBits>>,
     <<IDHighBits, "high_bits", IDHighBits>>,
     <<IDUnreadU8, "unread_u8", IDUnreadU8>>,
     <<IDIsMarked, "is_marked", IDIsMarked>>}

\* The array: an index that the literal does not list holds the zero value.
builtInsByID ==
    [x \in 0..(nBuiltInIDs - 1) |->
        IF \E e \in builtInsListed : e[1] = x
        THEN LET e == CHOOSE e \in builtInsListed : e[1] = x
             IN  [name |-> e[2], id |-> e[3]]
        ELSE [name |-> "", id |-> 0]]

\* m[name] = id
Put(m, name, id) == [n \in (DOMAIN m) \cup {name} |-> IF n = name THEN id ELSE m[n]]

\* One pass of the loop of init, for x = builtInsByID[initPos].
init ==
    /\ initPos < nBuiltInIDs
    /\ \E x \in {builtInsByID[initPos]} :
           builtInsByName' = IF x.name # "" THEN Put(builtInsByName, x.name, x.id)
                             ELSE builtInsByName
    /\ initPos' = initPos + 1
    /\ UNCHANGED <<r, pc, cBias, dBias, ret, firstErr, lastSeek, hist, seq0, eofSeen>>

\* The package is loaded; no Reader is in use.
InitPackage ==
    /\ InitToken
    /\ r = NewReader(NilReadSeeker, 0)
    /\ pc = "idle"
    /\ cBias = 0
    /\ dBias = 0
    /\ ret = NoRet
    /\ firstErr = Nil
    /\ lastSeek = [ok |-> FALSE, d |-> 0, fresh |-> FALSE]
    /\ hist = <<>>
    /\ seq0 = [set |-> FALSE, chunks |-> <<>>]
    /\ eofSeen = FALSE

TokenSpec == InitPackage /\ [][init]_vars

\* C30: every entry of builtInsByID that has a name holds its own index as
\* its id, and builtInsByName maps the name to that index: so it is for every
\* entry that init has passed, "~+" included.
C30_NamesRoundTrip ==
    \A x \in 0..(initPos - 1) :
        builtInsByID[x].name # ""
            => /\ builtInsByID[x].id = x
               /\ builtInsByID[x].name \in DOMAIN builtInsByName
               /\ builtInsByName[builtInsByID[x].name] = x

=============================================================================
